---- MODULE Spec2Model ----
(***************************************************************************)
(* Jigsaw-puzzle generator of the Figma plugin (latest revision of the     *)
(* message handler, with curved studs and per-piece bounds).               *)
(*                                                                         *)
(* Numbers: the code computes with floats; here every length is an exact   *)
(* integer number of units, Scale units to the pixel, and the piece sizes  *)
(* are chosen so that every product with a StudConfig fraction is exact.   *)
(* A fraction is a pair <<numerator, denominator>>.  A quotient whose      *)
(* value is only stored (the image transform) is kept as such a pair.      *)
(* An optional value is a sequence: <<>> is undefined, <<v>> is v.         *)
(* A path string is the sequence of its commands, each a record            *)
(* [op, args]; string concatenation is \o.                                 *)
(***************************************************************************)
EXTENDS Integers, Sequences, FiniteSets, TLC

\* ------------------------------------------------------------------ bounds
MaxCells == 6
MaxSize == 3
MaxSmall == 4

\* units per pixel, and the smallest piece size (30 px) of the model
Scale == 2 * 2
BaseSize == 30 * Scale

\* ----------------------------------------------------------- number helpers
undefined == <<>>
Some(v) == <<v>>
Min(a, b) == IF a < b THEN a ELSE b
Mul(x, f) == (x * f[1]) \div f[2]
OneMinus(f) == <<f[2] - f[1], f[2]>>

RECURSIVE Gcd(_, _)
Gcd(a, b) == IF b = 0 THEN a ELSE Gcd(b, a % b)
RECURSIVE LcmUpTo(_)
LcmUpTo(n) == IF n <= 1 THEN 1 ELSE (LcmUpTo(n - 1) * n) \div Gcd(LcmUpTo(n - 1), n)

\* ------------------------------------------------------------- StudConfig
\* the configuration of the latest revision (cornerJog 0.0)
STUD_CFG ==
  [widthFactor |-> <<1, 3>>, depthFactor |-> <<1, 6>>, rise1 |-> <<1, 2>>,
   rise2 |-> <<7, 10>>, blend |-> <<1, 5>>, cornerJog |-> <<0, 1>>]

\* the configuration of the previous revision (cornerJog 1.0)
STUD_CFG_JOG == [STUD_CFG EXCEPT !.cornerJog = <<1, 1>>]

\* a configuration with other factors, for the functions taking any cfg
STUD_CFG_WIDE ==
  [widthFactor |-> <<1, 2>>, depthFactor |-> <<1, 4>>, rise1 |-> <<1, 2>>,
   rise2 |-> <<4, 5>>, blend |-> <<2, 5>>, cornerJog |-> <<1, 2>>]

StudConfigs == {STUD_CFG, STUD_CFG_JOG, STUD_CFG_WIDE}

\* ---------------------------------------------------------- path commands
L(x, y) == <<[op |-> "L", args |-> <<x, y>>]>>
C(x1, y1, x2, y2, x, y) == <<[op |-> "C", args |-> <<x1, y1, x2, y2, x, y>>]>>

Sides == {"top", "right", "bottom", "left"}

\* variant: the bottom side is not mirrored horizontally
makeSideTransformUnmirrored(side, w, h, x, y) ==
  CASE side = "top" -> <<x, y>>
    [] side = "right" -> <<w - y, x>>
    [] side = "bottom" -> <<x, h - y>>
    [] side = "left" -> <<y, h - x>>

\* variant: the left side runs downwards like the right side
makeSideTransformLeftDown(side, w, h, x, y) ==
  CASE side = "top" -> <<x, y>>
    [] side = "right" -> <<w - y, x>>
    [] side = "bottom" -> <<w - x, h - y>>
    [] side = "left" -> <<y, x>>

\* variant: the right side is rotated the other way, its studs point inwards
makeSideTransformRightInward(side, w, h, x, y) ==
  CASE side = "top" -> <<x, y>>
    [] side = "right" -> <<w + y, x>>
    [] side = "bottom" -> <<w - x, h - y>>
    [] side = "left" -> <<y, h - x>>

makeSideTransform(side, w, h, x, y) ==
  CASE side = "top" -> <<x, y>>
    [] side = "right" -> <<w - y, x>>
    [] side = "bottom" -> <<w - x, h - y>>
    [] side = "left" -> <<y, h - x>>

\* ------------------------------------------------------------ edgeWithStud
\* variant: the stud width is taken from the larger dimension of the piece
studWidthOfLarger(w, h, cfg) == Mul(IF w > h THEN w ELSE h, cfg.widthFactor)

\* width of a stud: minDim * cfg.widthFactor
studWidth(w, h, cfg) == Mul(Min(w, h), cfg.widthFactor)

\* depth of a stud: minDim * cfg.depthFactor
studDepth(w, h, cfg) == Mul(Min(w, h), cfg.depthFactor)

\* length across a side: w for top and bottom, h for right and left
acrossOf(side, w, h) == IF side = "top" \/ side = "bottom" THEN w ELSE h

\* the corner prefix every side starts with: l(-jog, -jog), l(0, 0)
cornerPrefix(side, w, h, cfg) ==
  LET jog == Mul(studDepth(w, h, cfg), cfg.cornerJog)
      T(x, y) == makeSideTransform(side, w, h, x, y)
      l(x, y) == L(T(x, y)[1], T(x, y)[2])
  IN  l(0 - jog, 0 - jog) \o l(0, 0)

\* the segment of a side without neighbor: one line to the far corner
straightEdge(side, w, h, cfg) ==
  LET across == acrossOf(side, w, h)
      yBase == 0
      T(x, y) == makeSideTransform(side, w, h, x, y)
      l(x, y) == L(T(x, y)[1], T(x, y)[2])
  IN  l(across, yBase)

\* variant: half is the whole stud width
studProfileFullWidth(side, w, h, isTab, cfg) ==
  LET minDim == Min(w, h)
      studW == studWidth(w, h, cfg)
      depth == Mul(minDim, cfg.depthFactor)
      across == acrossOf(side, w, h)
      mid == across \div 2
      half == studW
      yBase == 0
      dy == IF isTab # undefined /\ isTab[1] THEN 0 - depth ELSE depth
      blend == cfg.blend
      rise1 == Mul(dy, cfg.rise1)
      rise2 == Mul(dy, cfg.rise2)
      T(x, y) == makeSideTransform(side, w, h, x, y)
      l(x, y) == L(T(x, y)[1], T(x, y)[2])
      c(x1, y1, x2, y2, x, y) ==
        C(T(x1, y1)[1], T(x1, y1)[2], T(x2, y2)[1], T(x2, y2)[2], T(x, y)[1], T(x, y)[2])
  IN  l(mid - half, yBase)
      \o c(mid - half + Mul(half, blend), yBase, mid - half, yBase + rise1,
           mid - half, yBase + rise2)
      \o c(mid - half, yBase + dy, mid - Mul(half, OneMinus(blend)), yBase + dy,
           mid, yBase + dy)
      \o c(mid + Mul(half, OneMinus(blend)), yBase + dy, mid + half, yBase + dy,
           mid + half, yBase + rise2)
      \o c(mid + half, yBase + rise1, mid + Mul(half, OneMinus(blend)), yBase,
           mid + half, yBase)
      \o l(across, yBase)

\* the segment of a side with a neighbor: run, bump, run
studProfile(side, w, h, isTab, cfg) ==
  LET minDim == Min(w, h)
      studW == studWidth(w, h, cfg)
      depth == Mul(minDim, cfg.depthFactor)
      across == acrossOf(side, w, h)
      mid == across \div 2
      half == studW \div 2
      yBase == 0
      dy == IF isTab # undefined /\ isTab[1] THEN 0 - depth ELSE depth
      blend == cfg.blend
      rise1 == Mul(dy, cfg.rise1)
      rise2 == Mul(dy, cfg.rise2)
      T(x, y) == makeSideTransform(side, w, h, x, y)
      l(x, y) == L(T(x, y)[1], T(x, y)[2])
      c(x1, y1, x2, y2, x, y) ==
        C(T(x1, y1)[1], T(x1, y1)[2], T(x2, y2)[1], T(x2, y2)[2], T(x, y)[1], T(x, y)[2])
  IN  l(mid - half, yBase)
      \o c(mid - half + Mul(half, blend), yBase, mid - half, yBase + rise1,
           mid - half, yBase + rise2)
      \o c(mid - half, yBase + dy, mid - Mul(half, OneMinus(blend)), yBase + dy,
           mid, yBase + dy)
      \o c(mid + Mul(half, OneMinus(blend)), yBase + dy, mid + half, yBase + dy,
           mid + half, yBase + rise2)
      \o c(mid + half, yBase + rise1, mid + Mul(half, OneMinus(blend)), yBase,
           mid + half, yBase)
      \o l(across, yBase)

\* variant: no early return for a side without neighbor
edgeWithStudNoEarlyReturn(side, w, h, hasNeighbor, isTab, cfg) ==
  cornerPrefix(side, w, h, cfg) \o studProfile(side, w, h, isTab, cfg)

edgeWithStud(side, w, h, hasNeighbor, isTab, cfg) ==
  cornerPrefix(side, w, h, cfg)
  \o (IF ~hasNeighbor \/ isTab = undefined
        THEN straightEdge(side, w, h, cfg)
        ELSE studProfile(side, w, h, isTab, cfg))

\* neighbors.side?.isTab
isTabOf(d) == IF d = undefined THEN undefined ELSE Some(d[1].isTab)

\* variant: the pen is moved to the corner before each side
buildPiecePathMovePerSide(w, h, neighbors, cfg) ==
  <<[op |-> "M", args |-> <<0, 0>>]>>
  \o edgeWithStud("top", w, h, neighbors.top # undefined, isTabOf(neighbors.top), cfg)
  \o <<[op |-> "M", args |-> <<w, 0>>]>>
  \o edgeWithStud("right", w, h, neighbors.right # undefined, isTabOf(neighbors.right), cfg)
  \o <<[op |-> "M", args |-> <<w, h>>]>>
  \o edgeWithStud("bottom", w, h, neighbors.bottom # undefined, isTabOf(neighbors.bottom), cfg)
  \o <<[op |-> "M", args |-> <<0, h>>]>>
  \o edgeWithStud("left", w, h, neighbors.left # undefined, isTabOf(neighbors.left), cfg)
  \o <<[op |-> "Z", args |-> <<>>]>>

buildPiecePath(w, h, neighbors, cfg) ==
  <<[op |-> "M", args |-> <<0, 0>>]>>
  \o edgeWithStud("top", w, h, neighbors.top # undefined, isTabOf(neighbors.top), cfg)
  \o edgeWithStud("right", w, h, neighbors.right # undefined, isTabOf(neighbors.right), cfg)
  \o edgeWithStud("bottom", w, h, neighbors.bottom # undefined, isTabOf(neighbors.bottom), cfg)
  \o edgeWithStud("left", w, h, neighbors.left # undefined, isTabOf(neighbors.left), cfg)
  \o <<[op |-> "Z", args |-> <<>>]>>

\* neighbors.side?.isTab used as a condition: undefined is falsy
truthy(o) == o # undefined /\ o[1]

\* variant: every side with a neighbor is extended, tab or indent
calculatePieceBoundsAnyNeighbor(neighbors, w, h, cfg) ==
  LET depth == Mul(Min(w, h), cfg.depthFactor)
  IN  [minX |-> IF neighbors.left # undefined THEN 0 - depth ELSE 0,
       maxX |-> w + (IF neighbors.right # undefined THEN depth ELSE 0),
       minY |-> IF neighbors.top # undefined THEN 0 - depth ELSE 0,
       maxY |-> h + (IF neighbors.bottom # undefined THEN depth ELSE 0)]

calculatePieceBounds(neighbors, w, h, cfg) ==
  LET depth == Mul(Min(w, h), cfg.depthFactor)
  IN  [minX |-> IF truthy(isTabOf(neighbors.left)) THEN 0 - depth ELSE 0,
       maxX |-> w + (IF truthy(isTabOf(neighbors.right)) THEN depth ELSE 0),
       minY |-> IF truthy(isTabOf(neighbors.top)) THEN 0 - depth ELSE 0,
       maxY |-> h + (IF truthy(isTabOf(neighbors.bottom)) THEN depth ELSE 0)]

\* ---------------------------------------------------------------- handler
VARIABLES
  pc,             \* position of the message handler
  msg,            \* the message being handled
  imageError,     \* figma.createImage threw
  imageHash,      \* hash of the decoded image
  nodes,          \* nodes[row][col]: the vector nodes created so far
  neighborsData,  \* neighborsData[row][col]: the records assigned so far
  row, col,       \* loop counters of the running loop
  page,           \* children appended to figma.currentPage, in order
  closed,         \* number of calls of figma.closePlugin
  notified,       \* number of calls of figma.notify
  draws,          \* number of values drawn from Math.random
  call,           \* arguments of a direct call of the path functions
  out,            \* result of the last direct call
  previous        \* isTab table of the previous generation of the same request

vars == <<pc, msg, imageError, imageHash, nodes, neighborsData, row, col, page,
          closed, notified, draws, call, out, previous>>

\* rows and columns a message may carry (valid and invalid ones); the grids
\* handled have at most MaxCells cells
GridRows == -1 .. MaxCells
GridCols == -1 .. MaxCells

\* image sizes a message may carry: every quotient by a valid count is a
\* piece size whose stud lengths are exact; 0 and a negative size are invalid
ImageUnit == BaseSize * LcmUpTo(MaxCells)
ImageSizes == {k * ImageUnit : k \in -1 .. 2}

NoMessage == [type |-> "none"]

rows == msg.rows
columns == msg.columns
originalImageWidth == msg.originalImageWidth
originalImageHeight == msg.originalImageHeight

\* x / 0 in floating point; no loop body runs when it is the piece size
Infinity == "Infinity"
pieceWidth == IF columns = 0 THEN Infinity ELSE originalImageWidth \div columns
pieceHeight == IF rows = 0 THEN Infinity ELSE originalImageHeight \div rows

\* the cells the loops "for row < rows, for col < columns" visit
Cells == (0 .. rows - 1) \X (0 .. columns - 1)
LastCell == <<rows - 1, columns - 1>>
NextRow == IF col + 1 < columns THEN row ELSE row + 1
NextCol == IF col + 1 < columns THEN col + 1 ELSE 0

\* the node figma.createVector returns, with the fill the loop body sets
newVector(r, c) ==
  LET maxDepth == Mul(Min(pieceWidth, pieceHeight), STUD_CFG.depthFactor)
      pieceBounds ==
        [minX |-> IF c > 0 THEN 0 - maxDepth ELSE 0,
         maxX |-> pieceWidth + (IF c < columns - 1 THEN maxDepth ELSE 0),
         minY |-> IF r > 0 THEN 0 - maxDepth ELSE 0,
         maxY |-> pieceHeight + (IF r < rows - 1 THEN maxDepth ELSE 0)]
      boundsWidth == pieceBounds.maxX - pieceBounds.minX
      boundsHeight == pieceBounds.maxY - pieceBounds.minY
  IN  [id |-> Len(page) + r * columns + c + 1,
       imageHash |-> imageHash,
       imageTransform |->
         <<<< <<boundsWidth, originalImageWidth>>, 0,
              <<c * pieceWidth + pieceBounds.minX, originalImageWidth>> >>,
           << 0, <<boundsHeight, originalImageHeight>>,
              <<r * pieceHeight + pieceBounds.minY, originalImageHeight>> >> >>,
       puzzleNeighbors |-> undefined,
       vectorPaths |-> <<>>,
       size |-> undefined]

\* the four descriptors of the record built for cell (r, c)
\* variant: the left side copies the neighbor's right value without negating it
leftDescriptorCopied(ns, nd, r, c) ==
  IF c - 1 >= 0 /\ <<r, c - 1>> \in DOMAIN ns
    THEN Some([neighborId |-> ns[<<r, c - 1>>].id,
               isTab |-> nd[<<r, c - 1>>].right[1].isTab])
    ELSE undefined

leftDescriptor(ns, nd, r, c) ==
  IF c - 1 >= 0 /\ <<r, c - 1>> \in DOMAIN ns
    THEN Some([neighborId |-> ns[<<r, c - 1>>].id,
               isTab |-> ~nd[<<r, c - 1>>].right[1].isTab])
    ELSE undefined

\* variant: a random value is drawn for the right side of the last column too
rightDescriptorAlways(ns, r, c, random) ==
  IF <<r, c + 1>> \in DOMAIN ns
    THEN Some([neighborId |-> ns[<<r, c + 1>>].id, isTab |-> random])
    ELSE Some([neighborId |-> 0, isTab |-> random])

rightDescriptor(ns, r, c, random) ==
  IF <<r, c + 1>> \in DOMAIN ns
    THEN Some([neighborId |-> ns[<<r, c + 1>>].id, isTab |-> random])
    ELSE undefined

\* variant: the top side copies the neighbor's bottom value without negating it
topDescriptorCopied(ns, nd, r, c) ==
  IF r - 1 >= 0 /\ <<r - 1, c>> \in DOMAIN ns
    THEN Some([neighborId |-> ns[<<r - 1, c>>].id,
               isTab |-> nd[<<r - 1, c>>].bottom[1].isTab])
    ELSE undefined

\* variant: the top descriptor names the piece's own node
topDescriptorSelf(ns, nd, r, c) ==
  IF r - 1 >= 0 /\ <<r - 1, c>> \in DOMAIN ns
    THEN Some([neighborId |-> ns[<<r, c>>].id,
               isTab |-> ~nd[<<r - 1, c>>].bottom[1].isTab])
    ELSE undefined

topDescriptor(ns, nd, r, c) ==
  IF r - 1 >= 0 /\ <<r - 1, c>> \in DOMAIN ns
    THEN Some([neighborId |-> ns[<<r - 1, c>>].id,
               isTab |-> ~nd[<<r - 1, c>>].bottom[1].isTab])
    ELSE undefined

\* variant: the bottom side tests the cell to the right instead of the one below
bottomDescriptorOfRight(ns, r, c, random) ==
  IF <<r, c + 1>> \in DOMAIN ns
    THEN Some([neighborId |-> ns[<<r, c + 1>>].id, isTab |-> random])
    ELSE undefined

\* variant: the test for a cell below is off by one row
bottomDescriptorOffByOne(ns, r, c, random) ==
  IF <<r + 2, c>> \in DOMAIN ns
    THEN Some([neighborId |-> ns[<<r + 1, c>>].id, isTab |-> random])
    ELSE undefined

bottomDescriptor(ns, r, c, random) ==
  IF <<r + 1, c>> \in DOMAIN ns
    THEN Some([neighborId |-> ns[<<r + 1, c>>].id, isTab |-> random])
    ELSE undefined

\* the non-null assertions .right! and .bottom! read an undefined descriptor
readsUndefined(ns, nd, r, c) ==
  \/ c - 1 >= 0 /\ <<r, c - 1>> \in DOMAIN ns /\ nd[<<r, c - 1>>].right = undefined
  \/ r - 1 >= 0 /\ <<r - 1, c>> \in DOMAIN ns /\ nd[<<r - 1, c>>].bottom = undefined

\* variant: the persisted record keeps only the isTab values
stringifyShape(neighbors) ==
  [s \in {t \in Sides : neighbors[t] # undefined} |-> [isTab |-> neighbors[s][1].isTab]]

\* JSON.stringify of a neighbors record: undefined properties are omitted
stringify(neighbors) ==
  [s \in {t \in Sides : neighbors[t] # undefined} |-> neighbors[s][1]]

\* { top: neighbors.top && { isTab: neighbors.top.isTab }, ... }
shapeOf(d) == IF d = undefined THEN undefined ELSE Some([isTab |-> d[1].isTab])
neighborShape(neighbors) ==
  [top |-> shapeOf(neighbors.top), right |-> shapeOf(neighbors.right),
   bottom |-> shapeOf(neighbors.bottom), left |-> shapeOf(neighbors.left)]

\* pathData.substring(pathData.indexOf('L')): the commands from the first L on
RECURSIVE fromFirstL(_)
fromFirstL(d) ==
  IF d = <<>> THEN <<>>
  ELSE IF Head(d).op = "L" THEN d
  ELSE fromFirstL(Tail(d))

offsetPathData(bounds, pathData) ==
  <<[op |-> "M", args |-> <<0 - bounds.minX, 0 - bounds.minY>>]>>
  \o fromFirstL(pathData)

\* ---------------------------------------------------------------- actions
NoCall == [w |-> 0, h |-> 0, neighbors |-> undefined, cfg |-> STUD_CFG]

Init ==
  /\ pc = "idle"
  /\ msg = NoMessage
  /\ imageError = FALSE
  /\ imageHash = undefined
  /\ nodes = <<>>
  /\ neighborsData = <<>>
  /\ row = 0
  /\ col = 0
  /\ page = <<>>
  /\ closed = 0
  /\ notified = 0
  /\ draws = 0
  /\ call = NoCall
  /\ out = undefined
  /\ previous = undefined

\* if (msg.type === "debug") return;
ReceiveDebug ==
  /\ pc = "idle"
  /\ msg' = [type |-> "debug"]
  /\ pc' = "returned"
  /\ UNCHANGED <<imageError, imageHash, nodes, neighborsData, row, col, page,
                 closed, notified, draws, call, out, previous>>

\* a message of another type skips the puzzle branch and closes the plugin
ReceiveCreateShapes ==
  /\ pc = "idle"
  /\ \E r \in GridRows, c \in GridCols :
       msg' = [type |-> "create-shapes", rows |-> r, columns |-> c]
  /\ pc' = "closed"
  /\ closed' = closed + 1
  /\ UNCHANGED <<imageError, imageHash, nodes, neighborsData, row, col, page,
                 notified, draws, call, out, previous>>

\* if (msg.type === "create-puzzle") { const rows = msg.rows; ... }
ReceiveCreatePuzzle ==
  /\ pc = "idle"
  /\ \E r \in GridRows, c \in GridCols, iw \in ImageSizes, ih \in ImageSizes :
       /\ r * c <= MaxCells
       /\ msg' = [type |-> "create-puzzle", rows |-> r, columns |-> c,
                  originalImageWidth |-> iw, originalImageHeight |-> ih]
  /\ pc' = "createImage"
  /\ UNCHANGED <<imageError, imageHash, nodes, neighborsData, row, col, page,
                 closed, notified, draws, call, out, previous>>

\* figma.createImage(new Uint8Array(msg.imageData)).hash, the image decodes
CreateImage ==
  /\ pc = "createImage"
  /\ imageHash' = Some("hash")
  /\ pc' = IF Cells = {} THEN "finish" ELSE "create"
  /\ UNCHANGED <<msg, imageError, nodes, neighborsData, row, col, page, closed,
                 notified, draws, call, out, previous>>

\* variant: the error is caught and generation goes on without image
CreateImageCaught ==
  /\ pc = "createImage"
  /\ imageError' = TRUE
  /\ pc' = IF Cells = {} THEN "finish" ELSE "create"
  /\ UNCHANGED <<msg, imageHash, nodes, neighborsData, row, col, page, closed,
                 notified, draws, call, out, previous>>

\* figma.createImage throws: nothing catches it, the handler's promise rejects
CreateImageThrows ==
  /\ pc = "createImage"
  /\ imageError' = TRUE
  /\ pc' = "rejected"
  /\ UNCHANGED <<msg, imageHash, nodes, neighborsData, row, col, page, closed,
                 notified, draws, call, out, previous>>

\* one body of the loop creating the vectors; two scatter coordinates are drawn
CreateVector ==
  /\ pc = "create"
  /\ nodes' = nodes @@ (<<row, col>> :> newVector(row, col))
  /\ draws' = draws + 2
  /\ row' = IF <<row, col>> = LastCell THEN 0 ELSE NextRow
  /\ col' = NextCol
  /\ pc' = IF <<row, col>> = LastCell THEN "neighbors" ELSE "create"
  /\ UNCHANGED <<msg, imageError, imageHash, neighborsData, page, closed,
                 notified, call, out, previous>>

\* const neighbors = neighborsData[row][col], read in the wrong cell
neighborsOfLeftCell(nd, r, c) ==
  IF <<r, c - 1>> \in DOMAIN nd THEN nd[<<r, c - 1>>] ELSE nd[<<r, c>>]

\* const neighbors = neighborsData[row][col]
neighborsOf(nd, r, c) == nd[<<r, c>>]

\* the path and the size the path loop installs on a node
withPath(node, neighbors) ==
  LET shape == neighborShape(neighbors)
      bounds == calculatePieceBounds(shape, pieceWidth, pieceHeight, STUD_CFG)
      pathData == buildPiecePath(pieceWidth, pieceHeight, shape, STUD_CFG)
  IN  [node EXCEPT
         !.vectorPaths = <<[windingRule |-> "EVENODD",
                            data |-> offsetPathData(bounds, pathData)]>>,
         !.size = Some(<<bounds.maxX - bounds.minX, bounds.maxY - bounds.minY>>)]

\* variant: one loop assigns a cell's descriptors and installs its path at once
withNeighborsAndPath(ns, cell, neighbors) ==
  [ns EXCEPT ![cell] =
     withPath([@ EXCEPT !.puzzleNeighbors = Some(stringify(neighbors))], neighbors)]

\* nodes[row][col].setPluginData('puzzleNeighbors', JSON.stringify(neighbors))
withNeighbors(ns, cell, neighbors) ==
  [ns EXCEPT ![cell].puzzleNeighbors = Some(stringify(neighbors))]

\* one body of the loop "set neighbor data"
AssignNeighbors ==
  /\ pc = "neighbors"
  /\ IF readsUndefined(nodes, neighborsData, row, col)
       THEN /\ pc' = "rejected"
            /\ UNCHANGED <<nodes, neighborsData, row, col, draws>>
       ELSE \E randomRight \in
                 IF rightDescriptor(nodes, row, col, TRUE) = undefined
                   THEN {FALSE} ELSE BOOLEAN,
               randomBottom \in
                 IF bottomDescriptor(nodes, row, col, TRUE) = undefined
                   THEN {FALSE} ELSE BOOLEAN :
              LET neighbors ==
                    [left |-> leftDescriptor(nodes, neighborsData, row, col),
                     right |-> rightDescriptor(nodes, row, col, randomRight),
                     top |-> topDescriptor(nodes, neighborsData, row, col),
                     bottom |-> bottomDescriptor(nodes, row, col, randomBottom)]
              IN  /\ neighborsData' = neighborsData @@ (<<row, col>> :> neighbors)
                  /\ nodes' = withNeighbors(nodes, <<row, col>>, neighbors)
                  /\ draws' = draws
                              + (IF neighbors.right = undefined THEN 0 ELSE 1)
                              + (IF neighbors.bottom = undefined THEN 0 ELSE 1)
                  /\ row' = IF <<row, col>> = LastCell THEN 0 ELSE NextRow
                  /\ col' = NextCol
                  /\ pc' = IF <<row, col>> = LastCell THEN "paths" ELSE "neighbors"
  /\ UNCHANGED <<msg, imageError, imageHash, page, closed, notified, call, out, previous>>

\* variant: new scatter coordinates are drawn while the paths are installed
SetPathScattered ==
  /\ pc = "paths"
  /\ nodes' = [nodes EXCEPT ![<<row, col>>] =
                               withPath(@, neighborsOf(neighborsData, row, col))]
  /\ draws' = draws + 2
  /\ row' = IF <<row, col>> = LastCell THEN 0 ELSE NextRow
  /\ col' = NextCol
  /\ pc' = IF <<row, col>> = LastCell THEN "finish" ELSE "paths"
  /\ UNCHANGED <<msg, imageError, imageHash, neighborsData, page, closed,
                 notified, call, out, previous>>

\* one body of the loop building the path and the size of a piece
SetPath ==
  /\ pc = "paths"
  /\ nodes' = [nodes EXCEPT ![<<row, col>>] =
                               withPath(@, neighborsOf(neighborsData, row, col))]
  /\ row' = IF <<row, col>> = LastCell THEN 0 ELSE NextRow
  /\ col' = NextCol
  /\ pc' = IF <<row, col>> = LastCell THEN "finish" ELSE "paths"
  /\ UNCHANGED <<msg, imageError, imageHash, neighborsData, page, closed,
                 notified, draws, call, out, previous>>

\* nodes in row-major order, as the last loop appends them
RECURSIVE rowMajor(_, _)
rowMajor(r, c) ==
  IF r >= rows \/ columns <= 0 THEN <<>>
  ELSE IF c >= columns THEN rowMajor(r + 1, 0)
  ELSE <<nodes[<<r, c>>].id>> \o rowMajor(r, c + 1)

\* the append loop, scrollAndZoomIntoView, notify and figma.closePlugin
Finish ==
  /\ pc = "finish"
  /\ page' = page \o rowMajor(0, 0)
  /\ notified' = notified + 1
  /\ closed' = closed + 1
  /\ pc' = "closed"
  /\ UNCHANGED <<msg, imageError, imageHash, nodes, neighborsData, row, col,
                 draws, call, out, previous>>

Next ==
  \/ ReceiveDebug
  \/ ReceiveCreateShapes
  \/ ReceiveCreatePuzzle
  \/ CreateImage
  \/ CreateImageThrows
  \/ CreateVector
  \/ AssignNeighbors
  \/ SetPath
  \/ Finish

Spec == Init /\ [][Next]_vars

\* ------------------------------------- the same request generated a second time
\* a well-formed request for a small grid
ReceiveSmallPuzzle ==
  /\ pc = "idle"
  /\ \E r \in 1 .. MaxSmall, c \in 1 .. MaxSmall,
        iw \in {k \in ImageSizes : k > 0}, ih \in {k \in ImageSizes : k > 0} :
       /\ r * c <= MaxSmall
       /\ msg' = [type |-> "create-puzzle", rows |-> r, columns |-> c,
                  originalImageWidth |-> iw, originalImageHeight |-> ih]
  /\ pc' = "createImage"
  /\ UNCHANGED <<imageError, imageHash, nodes, neighborsData, row, col, page,
                 closed, notified, draws, call, out, previous>>

\* the isTab value of every side of every cell of a neighbor table
isTabTable(nd) == [cell \in DOMAIN nd |-> [s \in Sides |-> isTabOf(nd[cell][s])]]

\* the plugin is run again and receives the same create-puzzle message: the
\* handler starts afresh, the page keeps the pieces of the first generation
RunAgain ==
  /\ pc = "closed"
  /\ msg.type = "create-puzzle"
  /\ previous = undefined
  /\ previous' = Some(isTabTable(neighborsData))
  /\ imageHash' = undefined
  /\ nodes' = <<>>
  /\ neighborsData' = <<>>
  /\ pc' = "createImage"
  /\ UNCHANGED <<msg, imageError, row, col, page, closed, notified, draws, call, out>>

NextTwice ==
  \/ ReceiveSmallPuzzle
  \/ CreateImage
  \/ CreateVector
  \/ AssignNeighbors
  \/ SetPath
  \/ Finish
  \/ RunAgain

SpecTwice == Init /\ [][NextTwice]_vars

\* ------------------------------------------ the path loop taken in any order
\* one body of the path loop, for any cell whose path is not installed yet
SetPathAnyOrder ==
  /\ pc = "paths"
  /\ \E cell \in {k \in Cells : nodes[k].size = undefined} :
       /\ nodes' = [nodes EXCEPT ![cell] =
                                   withPath(@, neighborsOf(neighborsData, cell[1], cell[2]))]
       /\ pc' = IF \A k \in Cells \ {cell} : nodes[k].size # undefined
                  THEN "finish" ELSE "paths"
  /\ UNCHANGED <<msg, imageError, imageHash, neighborsData, row, col, page, closed,
                 notified, draws, call, out, previous>>

NextAnyOrder ==
  \/ ReceiveSmallPuzzle
  \/ CreateImage
  \/ CreateVector
  \/ AssignNeighbors
  \/ SetPathAnyOrder
  \/ Finish

SpecAnyOrder == Init /\ [][NextAnyOrder]_vars

\* ------------------------------------------- direct calls of the functions
\* piece sizes, neighbor views and configurations the functions are called on
PieceSizes == {k * BaseSize : k \in 1 .. MaxSize}
Shapes == {undefined, Some([isTab |-> TRUE]), Some([isTab |-> FALSE])}
NeighborViews == [top : Shapes, right : Shapes, bottom : Shapes, left : Shapes]

InitCalls ==
  /\ pc = "idle"
  /\ msg = NoMessage
  /\ imageError = FALSE
  /\ imageHash = undefined
  /\ nodes = <<>>
  /\ neighborsData = <<>>
  /\ row = 0
  /\ col = 0
  /\ page = <<>>
  /\ closed = 0
  /\ notified = 0
  /\ draws = 0
  /\ call \in [w : PieceSizes, h : PieceSizes, neighbors : NeighborViews,
               cfg : StudConfigs]
  /\ out = undefined
  /\ previous = undefined

handlerVars == <<pc, msg, imageError, imageHash, nodes, neighborsData, row, col,
                 page, closed, notified, draws, previous>>

CallBuildPiecePath ==
  /\ out' = Some([fn |-> "buildPiecePath",
                  value |-> buildPiecePath(call.w, call.h, call.neighbors, call.cfg)])
  /\ UNCHANGED <<handlerVars, call>>

CallCalculatePieceBounds ==
  /\ out' = Some([fn |-> "calculatePieceBounds",
                  value |-> calculatePieceBounds(call.neighbors, call.w, call.h, call.cfg)])
  /\ UNCHANGED <<handlerVars, call>>

\* the call buildPiecePath makes for one side
CallEdgeWithStud ==
  /\ \E side \in Sides :
       out' = Some([fn |-> "edgeWithStud", side |-> side,
                    value |-> edgeWithStud(side, call.w, call.h,
                                           call.neighbors[side] # undefined,
                                           isTabOf(call.neighbors[side]), call.cfg)])
  /\ UNCHANGED <<handlerVars, call>>

NextCalls ==
  \/ CallBuildPiecePath
  \/ CallCalculatePieceBounds
  \/ CallEdgeWithStud

SpecCalls == InitCalls /\ [][NextCalls]_vars

\* ================================================================= claims
assigned == DOMAIN neighborsData
assignmentFinished ==
  /\ msg.type = "create-puzzle"
  /\ pc \in {"paths", "finish", "closed"}
  /\ Cells # {}

\* C1: in the neighbor table, every horizontally adjacent pair of cells
\* (r,c),(r,c+1) has right(r,c).isTab = NOT left(r,c+1).isTab, whatever the
\* random draws were.
C1_HorizontalComplement ==
  \A cell \in assigned :
    LET next == <<cell[1], cell[2] + 1>>
    IN  next \in assigned =>
          /\ neighborsData[cell].right # undefined
          /\ neighborsData[next].left # undefined
          /\ neighborsData[cell].right[1].isTab = ~neighborsData[next].left[1].isTab

C1_Witness ==
  /\ assignmentFinished
  /\ columns = 2
  /\ neighborsData[<<0, 0>>].right[1].isTab
  /\ ~neighborsData[<<0, 1>>].left[1].isTab

\* C2: in the neighbor table, every vertically adjacent pair of cells
\* (r,c),(r+1,c) has bottom(r,c).isTab = NOT top(r+1,c).isTab, whatever the
\* random draws were.
C2_VerticalComplement ==
  \A cell \in assigned :
    LET below == <<cell[1] + 1, cell[2]>>
    IN  below \in assigned =>
          /\ neighborsData[cell].bottom # undefined
          /\ neighborsData[below].top # undefined
          /\ neighborsData[cell].bottom[1].isTab = ~neighborsData[below].top[1].isTab

C2_Witness ==
  /\ assignmentFinished
  /\ rows = 2
  /\ ~neighborsData[<<0, 0>>].bottom[1].isTab
  /\ neighborsData[<<1, 0>>].top[1].isTab

\* C3: a cell of the neighbor table has a descriptor on a side exactly when
\* the adjacent cell on that side is inside the grid (none on the left of
\* column 0, on the right of the last column, on top of row 0, below the last
\* row), and every descriptor carries a boolean isTab.
C3_DescriptorIffNeighborInGrid ==
  \A cell \in assigned :
    LET n == neighborsData[cell]
    IN  /\ (n.left # undefined) <=> (cell[2] > 0)
        /\ (n.right # undefined) <=> (cell[2] < columns - 1)
        /\ (n.top # undefined) <=> (cell[1] > 0)
        /\ (n.bottom # undefined) <=> (cell[1] < rows - 1)
        /\ \A s \in Sides : n[s] # undefined => n[s][1].isTab \in BOOLEAN

C3_Witness ==
  /\ assignmentFinished
  /\ rows = 2
  /\ columns = 2
  /\ neighborsData[<<1, 1>>].right = undefined
  /\ neighborsData[<<1, 1>>].left # undefined

\* ---------------------------------------------- claims on the path functions
outIs(fn) == out # undefined /\ out[1].fn = fn

\* the point a command ends at: its last two arguments
endPoint(cmd) == <<cmd.args[Len(cmd.args) - 1], cmd.args[Len(cmd.args)]>>

\* number of commands of a side's segment: two corner lines, then one line,
\* or the six commands of a stud
segmentLength(d) == IF d = undefined THEN 3 ELSE 8

\* the corner of the nominal rectangle a side ends at, going clockwise
farCorner(side, w, h) ==
  CASE side = "top" -> <<w, 0>>
    [] side = "right" -> <<w, h>>
    [] side = "bottom" -> <<0, h>>
    [] side = "left" -> <<0, 0>>

\* a point of the piece frame, seen in the canonical (top) frame of a side
toCanonical(side, w, h, p) ==
  CASE side = "top" -> p
    [] side = "right" -> <<p[2], w - p[1]>>
    [] side = "bottom" -> <<w - p[1], h - p[2]>>
    [] side = "left" -> <<h - p[2], p[1]>>

isTabSide(d) == d # undefined /\ d[1].isTab
expectedDepth(w, h, cfg) ==
  ((IF w < h THEN w ELSE h) * cfg.depthFactor[1]) \div cfg.depthFactor[2]

\* C4: the contour of buildPiecePath is closed: it starts at (0,0), the last
\* point drawn before the close command is (0,0), and each side's segment
\* ends at the corner where the next side's segment starts.
C4_ContourClosed ==
  outIs("buildPiecePath") =>
    LET d == out[1].value
        w == call.w
        h == call.h
        eTop == 1 + segmentLength(call.neighbors.top)
        eRight == eTop + segmentLength(call.neighbors.right)
        eBottom == eRight + segmentLength(call.neighbors.bottom)
        eLeft == eBottom + segmentLength(call.neighbors.left)
    IN  /\ Len(d) = eLeft + 1
        /\ d[1] = [op |-> "M", args |-> <<0, 0>>]
        /\ d[Len(d)].op = "Z"
        /\ endPoint(d[Len(d) - 1]) = <<0, 0>>
        /\ endPoint(d[eTop]) = <<w, 0>>
        /\ endPoint(d[eTop + 2]) = <<w, 0>>
        /\ endPoint(d[eRight]) = <<w, h>>
        /\ endPoint(d[eRight + 2]) = <<w, h>>
        /\ endPoint(d[eBottom]) = <<0, h>>
        /\ endPoint(d[eBottom + 2]) = <<0, h>>
        /\ endPoint(d[eLeft]) = <<0, 0>>

C4_Witness ==
  /\ outIs("buildPiecePath")
  /\ call.w # call.h
  /\ call.cfg.cornerJog[1] # 0
  /\ isTabSide(call.neighbors.top)
  /\ call.neighbors.right = undefined
  /\ call.neighbors.bottom # undefined /\ ~isTabSide(call.neighbors.bottom)
  /\ isTabSide(call.neighbors.left)

\* C5: calculatePieceBounds returns minX = -depth if the left side is a tab
\* else 0, maxX = width + depth if the right side is a tab else width, minY
\* and maxY likewise for top and bottom, with depth = min(width, height) *
\* depthFactor; the width of the bounds is width + depth per tab on left and
\* right, an indent or a missing neighbor adds nothing; a 90 x 90 piece with
\* depthFactor 1/6 and tabs on right and bottom only has {0, 105, 0, 105}.
C5_BoundsFormula ==
  outIs("calculatePieceBounds") =>
    LET b == out[1].value
        n == call.neighbors
        depth == expectedDepth(call.w, call.h, call.cfg)
        tabs(d) == IF isTabSide(d) THEN 1 ELSE 0
    IN  /\ b.minX = (IF isTabSide(n.left) THEN 0 - depth ELSE 0)
        /\ b.maxX = (IF isTabSide(n.right) THEN call.w + depth ELSE call.w)
        /\ b.minY = (IF isTabSide(n.top) THEN 0 - depth ELSE 0)
        /\ b.maxY = (IF isTabSide(n.bottom) THEN call.h + depth ELSE call.h)
        /\ b.maxX - b.minX = call.w + depth * tabs(n.left) + depth * tabs(n.right)
        /\ b.maxY - b.minY = call.h + depth * tabs(n.top) + depth * tabs(n.bottom)
        /\ (/\ call.w = 90 * Scale
            /\ call.h = 90 * Scale
            /\ call.cfg.depthFactor = <<1, 6>>
            /\ isTabSide(n.right) /\ isTabSide(n.bottom)
            /\ ~isTabSide(n.left) /\ ~isTabSide(n.top))
           => b = [minX |-> 0, maxX |-> 105 * Scale, minY |-> 0, maxY |-> 105 * Scale]

C5_Witness ==
  /\ outIs("calculatePieceBounds")
  /\ call.w = 90 * Scale
  /\ call.h = 90 * Scale
  /\ call.cfg = STUD_CFG
  /\ isTabSide(call.neighbors.right) /\ isTabSide(call.neighbors.bottom)
  /\ call.neighbors.left = undefined
  /\ call.neighbors.top # undefined /\ ~isTabSide(call.neighbors.top)
  /\ out[1].value = [minX |-> 0, maxX |-> 105 * Scale, minY |-> 0, maxY |-> 105 * Scale]

\* C6: the segment edgeWithStud emits for a side without neighbor descriptor
\* has only line commands, no cubic Bezier command, and ends at the far corner
\* of that side.
C6_BorderSideStraight ==
  (outIs("edgeWithStud") /\ call.neighbors[out[1].side] = undefined) =>
    LET d == out[1].value
    IN  /\ \A i \in 1 .. Len(d) : d[i].op = "L"
        /\ Len(d) > 0
        /\ endPoint(d[Len(d)]) = farCorner(out[1].side, call.w, call.h)

C6_Witness ==
  /\ outIs("edgeWithStud")
  /\ out[1].side = "bottom"
  /\ call.neighbors.bottom = undefined
  /\ call.w # call.h

\* what the canonical-frame stud of a side with a neighbor has to look like,
\* with the given number of Bezier curves
studShape(curves) ==
  LET d == out[1].value
      side == out[1].side
      w == call.w
      h == call.h
      across == IF side \in {"top", "bottom"} THEN w ELSE h
      minDim == IF w < h THEN w ELSE h
      half == (minDim * call.cfg.widthFactor[1]) \div (call.cfg.widthFactor[2] * 2)
      mid == across \div 2
      depth == expectedDepth(w, h, call.cfg)
      dy == IF isTabSide(call.neighbors[side]) THEN 0 - depth ELSE depth
      at(i) == toCanonical(side, w, h, endPoint(d[i]))
  IN  /\ Len(d) = 4 + curves
      /\ \A i \in 1 .. 3 : d[i].op = "L"
      /\ \A i \in 4 .. 3 + curves : d[i].op = "C"
      /\ d[Len(d)].op = "L"
      /\ at(2) = <<0, 0>>
      /\ at(3) = <<mid - half, 0>>
      /\ at(3 + curves \div 2) = <<mid, dy>>
      /\ at(3 + curves) = <<mid + half, 0>>
      /\ at(Len(d)) = <<across, 0>>

\* C7 as stated: for a side with a neighbor the segment is, in the canonical
\* frame, a straight run to x = mid - half, then two cubic Bezier curves
\* forming the bump, then a straight run to the far end.
C7_TwoCurves ==
  (outIs("edgeWithStud") /\ call.neighbors[out[1].side] # undefined) => studShape(2)

\* C7 amended: for a side with a neighbor the segment is, in the canonical
\* frame, a straight run to x = mid - half, then four cubic Bezier curves
\* forming the bump (the second ends on the crown (mid, dy), the fourth back
\* on the side at x = mid + half), then a straight run to the far end.
C7_FourCurves ==
  (outIs("edgeWithStud") /\ call.neighbors[out[1].side] # undefined) => studShape(4)

C7_Witness ==
  /\ outIs("edgeWithStud")
  /\ out[1].side = "left"
  /\ isTabSide(call.neighbors.left)
  /\ call.w < call.h
  /\ Len(out[1].value) = 8

\* --------------------------------------------------- claims on the handler
validRequest ==
  /\ msg.type = "create-puzzle"
  /\ rows > 0
  /\ columns > 0
  /\ originalImageWidth > 0
  /\ originalImageHeight > 0

\* the bounds a piece needs, from its own tabs
expectedBounds(n, w, h, cfg) ==
  LET depth == expectedDepth(w, h, cfg)
  IN  [minX |-> IF isTabSide(n.left) THEN 0 - depth ELSE 0,
       maxX |-> IF isTabSide(n.right) THEN w + depth ELSE w,
       minY |-> IF isTabSide(n.top) THEN 0 - depth ELSE 0,
       maxY |-> IF isTabSide(n.bottom) THEN h + depth ELSE h]

\* C8: the image transform of a piece uses the piece's computed bounds:
\* scale (maxX - minX) / sourceImageWidth and (maxY - minY) / sourceImageHeight,
\* translation the nominal grid position shifted by (minX, minY), so the
\* sampled window has the size the piece is resized to.
C8_TransformUsesComputedBounds ==
  validRequest =>
    \A cell \in DOMAIN nodes :
      nodes[cell].size # undefined =>
        LET b == expectedBounds(neighborsData[cell], pieceWidth, pieceHeight, STUD_CFG)
            t == nodes[cell].imageTransform
        IN  /\ t[1][1] = <<b.maxX - b.minX, originalImageWidth>>
            /\ t[2][2] = <<b.maxY - b.minY, originalImageHeight>>
            /\ t[1][3] = <<cell[2] * pieceWidth + b.minX, originalImageWidth>>
            /\ t[2][3] = <<cell[1] * pieceHeight + b.minY, originalImageHeight>>
            /\ t[1][1][1] = nodes[cell].size[1][1]
            /\ t[2][2][1] = nodes[cell].size[1][2]

\* C9: a create-puzzle request with rows <= 0, columns <= 0, image width <= 0
\* or image height <= 0 is rejected before generation: no vector node is
\* created, no neighbor data is stored, no path is set.
C9_InvalidRequestRejected ==
  (msg.type = "create-puzzle" /\ ~validRequest) =>
    /\ nodes = <<>>
    /\ neighborsData = <<>>
    /\ page = <<>>

\* C10: when generation fails (the image cannot be decoded, or a step of the
\* handler throws), the operation fails as a whole: the handler is rejected
\* and no piece, neighbor record or path of the request exists or is on the
\* page.
C10_FailureIsAtomic ==
  (imageError \/ pc = "rejected") =>
    /\ pc = "rejected"
    /\ nodes = <<>>
    /\ neighborsData = <<>>
    /\ page = <<>>
    /\ notified = 0

C10_Witness ==
  /\ imageError
  /\ pc = "rejected"
  /\ validRequest
  /\ rows = 2
  /\ columns = 2

\* C11: generating the same grid a second time, with everything the request
\* lets the caller fix held equal, yields the same isTab value on every side
\* of every cell as the first generation
C11_SameRequestSameTable ==
  (previous # undefined /\ assignmentFinished)
    => isTabTable(neighborsData) = previous[1]

\* C12: once neighbor assignment has finished no step draws a random value,
\* and two pieces of a run built from identical neighbor views and sizes get
\* identical paths and sizes
sameView(a, b) == neighborShape(neighborsData[a]) = neighborShape(neighborsData[b])
C12_NoDrawAfterAssignment ==
  [][assignmentFinished =>
       /\ draws' = draws
       /\ \A a, b \in Cells :
            (sameView(a, b) /\ nodes'[a].size # undefined /\ nodes'[b].size # undefined)
              => /\ nodes'[a].vectorPaths = nodes'[b].vectorPaths
                 /\ nodes'[a].size = nodes'[b].size]_vars
C12_Witness ==
  /\ assignmentFinished
  /\ pc = "finish"
  /\ \E a, b \in Cells : a # b /\ sameView(a, b) /\ nodes[a].size # undefined
  /\ draws > 0

\* C13: in a run of create-puzzle no path or size is installed on any piece
\* before the neighbor descriptors of all rows x columns cells are written
pathInstalled(cell) == nodes[cell].size # undefined \/ nodes[cell].vectorPaths # <<>>
C13_AssignmentBeforePaths ==
  (msg.type = "create-puzzle" /\ (pc = "paths" \/ \E cell \in DOMAIN nodes : pathInstalled(cell)))
    => /\ assigned = Cells
       /\ \A cell \in Cells : nodes[cell].puzzleNeighbors # undefined
C13_Witness ==
  /\ msg.type = "create-puzzle"
  /\ pc = "paths"
  /\ Cardinality(Cells) >= 4
  /\ \E a, b \in Cells : pathInstalled(a) /\ ~pathInstalled(b)

\* C14: neighbor assignment draws one random boolean per internal edge and
\* none for a border side, rows*(columns-1) + (rows-1)*columns draws in all
\* (the two scatter draws of each cell come before), and the two descriptors
\* of an internal edge are complementary, fixed by the one draw
internalEdges == rows * (columns - 1) + (rows - 1) * columns
scatterDraws == 2 * rows * columns
drawnSides(cell) ==
  Cardinality({s \in {"right", "bottom"} : neighborsData[cell][s] # undefined})
RECURSIVE sumDrawn(_)
sumDrawn(cells) ==
  IF cells = {} THEN 0
  ELSE LET cell == CHOOSE k \in cells : TRUE
       IN  drawnSides(cell) + sumDrawn(cells \ {cell})
C14_OneDrawPerInternalEdge ==
  /\ (msg.type = "create-puzzle" /\ pc = "neighbors")
       => draws = scatterDraws + sumDrawn(assigned)
  /\ assignmentFinished
       => /\ draws = scatterDraws + internalEdges
          /\ \A cell \in Cells :
               /\ (neighborsData[cell].right # undefined) = (cell[2] + 1 < columns)
               /\ (neighborsData[cell].bottom # undefined) = (cell[1] + 1 < rows)
               /\ cell[2] + 1 < columns =>
                    neighborsData[<<cell[1], cell[2] + 1>>].left[1].isTab
                      = ~neighborsData[cell].right[1].isTab
               /\ cell[1] + 1 < rows =>
                    neighborsData[<<cell[1] + 1, cell[2]>>].top[1].isTab
                      = ~neighborsData[cell].bottom[1].isTab
C14_Witness ==
  /\ assignmentFinished
  /\ rows = 2 /\ columns = 2
  /\ draws = scatterDraws + 4

\* C15: with two adjacent pieces at their nominal grid positions the stud
\* curve of their shared edge coincides: the end points and control points of
\* the side of one piece are, in reverse order, those of the facing side of the
\* other, one side being the tab and the other the indent, for horizontally
\* and for vertically adjacent pieces
RECURSIVE Reverse(_)
Reverse(q) == IF q = <<>> THEN <<>> ELSE Reverse(Tail(q)) \o <<Head(q)>>
curvePoints(cmd) ==
  <<<<cmd.args[1], cmd.args[2]>>, <<cmd.args[3], cmd.args[4]>>,
    <<cmd.args[5], cmd.args[6]>>>>
\* index of the first command of a side's segment in a piece's installed path
segmentStart(cell, side) ==
  LET n == neighborsData[cell]
  IN  CASE side = "top" -> 2
        [] side = "right" -> 2 + segmentLength(n.top)
        [] side = "bottom" -> 2 + segmentLength(n.top) + segmentLength(n.right)
        [] side = "left" -> 2 + segmentLength(n.top) + segmentLength(n.right)
                              + segmentLength(n.bottom)
\* the points of the stud of a side, moved to the piece's nominal position
studPointsAt(cell, side) ==
  LET d == nodes[cell].vectorPaths[1].data
      k == segmentStart(cell, side)
      local == <<endPoint(d[k + 2])>> \o curvePoints(d[k + 3]) \o curvePoints(d[k + 4])
                 \o curvePoints(d[k + 5]) \o curvePoints(d[k + 6])
  IN  [i \in 1 .. Len(local) |->
         <<local[i][1] + cell[2] * pieceWidth, local[i][2] + cell[1] * pieceHeight>>]
bothInstalled(a, b) ==
  /\ a \in DOMAIN nodes /\ b \in DOMAIN nodes
  /\ nodes[a].vectorPaths # <<>> /\ nodes[b].vectorPaths # <<>>
C15_SharedEdgeCoincides ==
  assignmentFinished =>
    \A cell \in Cells :
      LET east == <<cell[1], cell[2] + 1>>
          south == <<cell[1] + 1, cell[2]>>
      IN  /\ (east \in Cells /\ bothInstalled(cell, east))
               => /\ studPointsAt(cell, "right") = Reverse(studPointsAt(east, "left"))
                  /\ neighborsData[cell].right[1].isTab
                       # neighborsData[east].left[1].isTab
          /\ (south \in Cells /\ bothInstalled(cell, south))
               => /\ studPointsAt(cell, "bottom") = Reverse(studPointsAt(south, "top"))
                  /\ neighborsData[cell].bottom[1].isTab
                       # neighborsData[south].top[1].isTab
C15_Witness ==
  /\ assignmentFinished
  /\ pc = "finish"
  /\ rows = 2 /\ columns = 2
  /\ pieceWidth # pieceHeight
  /\ neighborsData[<<0, 0>>].right[1].isTab
  /\ ~neighborsData[<<0, 0>>].bottom[1].isTab
  /\ Len(studPointsAt(<<0, 0>>, "right")) = 13

\* C16: on each of the four sides the crown of a tab lies exactly depth
\* outside the nominal rectangle (y = -depth on top, x = w + depth on the
\* right, y = h + depth at the bottom, x = -depth on the left) and the crown
\* of an indent exactly depth inside; a tab and an indent of the same side
\* have the same corner lines and differ otherwise only in the sign of the
\* offset of the stud's points from the side's line
pointsOf(cmd) ==
  [i \in 1 .. (Len(cmd.args) \div 2) |-> <<cmd.args[2 * i - 1], cmd.args[2 * i]>>]
crownAt(side, w, h, d) ==
  CASE side = "top" -> <<w \div 2, 0 - d>>
    [] side = "right" -> <<w + d, h \div 2>>
    [] side = "bottom" -> <<w \div 2, h + d>>
    [] side = "left" -> <<0 - d, h \div 2>>
C16_CrownAtDepth ==
  (outIs("edgeWithStud") /\ call.neighbors[out[1].side] # undefined) =>
    LET side == out[1].side
        seg == out[1].value
        tab == call.neighbors[side][1].isTab
        depth == expectedDepth(call.w, call.h, call.cfg)
        other == edgeWithStud(side, call.w, call.h, TRUE, Some(~tab), call.cfg)
        canon(p) == toCanonical(side, call.w, call.h, p)
    IN  /\ Len(seg) = 8
        /\ depth > 0
        /\ endPoint(seg[5]) =
             crownAt(side, call.w, call.h, IF tab THEN depth ELSE 0 - depth)
        /\ Len(other) = Len(seg)
        /\ other[1] = seg[1]
        /\ other[2] = seg[2]
        /\ \A k \in 3 .. Len(seg) :
             /\ other[k].op = seg[k].op
             /\ \A i \in DOMAIN pointsOf(seg[k]) :
                  /\ canon(pointsOf(other[k])[i])[1] = canon(pointsOf(seg[k])[i])[1]
                  /\ canon(pointsOf(other[k])[i])[2] = 0 - canon(pointsOf(seg[k])[i])[2]
C16_Witness ==
  /\ outIs("edgeWithStud")
  /\ out[1].side = "right"
  /\ isTabSide(call.neighbors.right)
  /\ call.w # call.h
  /\ endPoint(out[1].value[5])[1] > call.w

\* C17: the rectangle calculatePieceBounds returns is the smallest rectangle
\* containing every end point and control point of the contour buildPiecePath
\* returns for the same width, height, neighbor view and configuration
contourPoints(d) ==
  UNION {{pointsOf(d[k])[i] : i \in DOMAIN pointsOf(d[k])} : k \in 1 .. Len(d)}
C17_BoundsAreTightest ==
  outIs("buildPiecePath") =>
    LET pts == contourPoints(out[1].value)
        b == calculatePieceBounds(call.neighbors, call.w, call.h, call.cfg)
    IN  /\ \A p \in pts : b.minX <= p[1] /\ p[1] <= b.maxX
                           /\ b.minY <= p[2] /\ p[2] <= b.maxY
        /\ \E p \in pts : p[1] = b.minX
        /\ \E p \in pts : p[1] = b.maxX
        /\ \E p \in pts : p[2] = b.minY
        /\ \E p \in pts : p[2] = b.maxY

\* C18: once neighbor assignment has finished, the path and the size of a
\* piece depend only on the piece's own four descriptors, the piece size and
\* the configuration: with the pieces processed in any order, each step
\* changes one piece only and leaves the table alone, every installed path has
\* the size, the start, the length and the crowns its own descriptors call
\* for, and pieces with identical views have identical paths
fromOwnDescriptors(cell) ==
  LET n == neighborsData[cell]
      d == nodes[cell].vectorPaths[1].data
      b == expectedBounds(n, pieceWidth, pieceHeight, STUD_CFG)
      depth == expectedDepth(pieceWidth, pieceHeight, STUD_CFG)
  IN  /\ nodes[cell].size = Some(<<b.maxX - b.minX, b.maxY - b.minY>>)
      /\ d[1] = [op |-> "M", args |-> <<0 - b.minX, 0 - b.minY>>]
      /\ Len(d) = segmentStart(cell, "left") + segmentLength(n.left)
      /\ \A side \in Sides :
           n[side] # undefined =>
             endPoint(d[segmentStart(cell, side) + 4]) =
               crownAt(side, pieceWidth, pieceHeight,
                       IF n[side][1].isTab THEN depth ELSE 0 - depth)
pathsFromOwnDescriptors ==
  /\ \A cell \in Cells : nodes[cell].size # undefined => fromOwnDescriptors(cell)
  /\ \A a, b \in Cells :
       (sameView(a, b) /\ nodes[a].size # undefined /\ nodes[b].size # undefined)
         => nodes[a].vectorPaths = nodes[b].vectorPaths
C18_OrderIndependent ==
  [][(msg.type = "create-puzzle" /\ pc = "paths") =>
       /\ neighborsData' = neighborsData
       /\ \E cell \in Cells :
            /\ \A k \in Cells \ {cell} : nodes'[k] = nodes[k]
            /\ nodes[cell].size = undefined
            /\ nodes'[cell].size # undefined
       /\ pathsFromOwnDescriptors']_vars
C18_Witness ==
  /\ msg.type = "create-puzzle"
  /\ pc = "paths"
  /\ rows = 2 /\ columns = 2
  /\ nodes[<<1, 1>>].size # undefined
  /\ nodes[<<0, 1>>].size # undefined
  /\ nodes[<<0, 0>>].size = undefined
  /\ fromOwnDescriptors(<<1, 1>>)

\* C19: after neighbor assignment has finished no step changes an entry of
\* the neighbor table or a persisted record, the record persisted on a piece
\* under 'puzzleNeighbors' holds exactly the defined descriptors of the
\* piece's table entry, and the piece's path and size are built from that entry
persistedMatches(cell) ==
  LET n == neighborsData[cell]
      rec == nodes[cell].puzzleNeighbors
  IN  /\ rec # undefined
      /\ DOMAIN rec[1] = {s \in Sides : n[s] # undefined}
      /\ \A s \in DOMAIN rec[1] : rec[1][s] = n[s][1]
C19_TableImmutable ==
  [][(msg.type = "create-puzzle" /\ pc \in {"neighbors", "paths", "finish"}) =>
       /\ \A cell \in DOMAIN neighborsData' :
            /\ persistedMatches(cell)'
            /\ (nodes[cell].size # undefined => fromOwnDescriptors(cell))'
       /\ assignmentFinished =>
            /\ neighborsData' = neighborsData
            /\ \A cell \in Cells :
                 nodes'[cell].puzzleNeighbors = nodes[cell].puzzleNeighbors]_vars
C19_Witness ==
  /\ assignmentFinished
  /\ pc = "finish"
  /\ rows = 2 /\ columns = 2
  /\ persistedMatches(<<0, 0>>)
  /\ DOMAIN nodes[<<0, 0>>].puzzleNeighbors[1] = {"right", "bottom"}
  /\ nodes[<<0, 0>>].puzzleNeighbors[1].right.neighborId = nodes[<<0, 1>>].id
  /\ nodes[<<0, 0>>].size # undefined

\* C20: the contour of buildPiecePath is a single subpath: its first command
\* is the only move command, the segments of the four sides follow in the
\* order top, right, bottom, left, and the last command is the only close
sideSegment(side) ==
  edgeWithStud(side, call.w, call.h, call.neighbors[side] # undefined,
               isTabOf(call.neighbors[side]), call.cfg)
C20_SingleSubpath ==
  outIs("buildPiecePath") =>
    LET d == out[1].value
        sTop == 2
        sRight == sTop + segmentLength(call.neighbors.top)
        sBottom == sRight + segmentLength(call.neighbors.right)
        sLeft == sBottom + segmentLength(call.neighbors.bottom)
        last == sLeft + segmentLength(call.neighbors.left)
    IN  /\ Len(d) = last
        /\ d[1].op = "M"
        /\ \A k \in 2 .. Len(d) : d[k].op # "M"
        /\ d[last].op = "Z"
        /\ \A k \in 1 .. last - 1 : d[k].op # "Z"
        /\ SubSeq(d, sTop, sRight - 1) = sideSegment("top")
        /\ SubSeq(d, sRight, sBottom - 1) = sideSegment("right")
        /\ SubSeq(d, sBottom, sLeft - 1) = sideSegment("bottom")
        /\ SubSeq(d, sLeft, last - 1) = sideSegment("left")
C20_Witness ==
  /\ outIs("buildPiecePath")
  /\ call.w # call.h
  /\ isTabSide(call.neighbors.top)
  /\ call.neighbors.right # undefined /\ ~isTabSide(call.neighbors.right)
  /\ call.neighbors.bottom = undefined
  /\ isTabSide(call.neighbors.left)
  /\ Len(out[1].value) = 29

\* C21: the path installed on a piece's node is the contour of buildPiecePath
\* translated by (-minX, -minY) of the piece's bounds: every end point and
\* control point is shifted by that offset, so no installed coordinate is
\* negative and the installed path starts and ends at the same point
translated(d, dx, dy) ==
  [k \in 1 .. Len(d) |->
     [op |-> d[k].op,
      args |-> [i \in 1 .. Len(d[k].args) |->
                  d[k].args[i] + (IF i % 2 = 1 THEN dx ELSE dy)]]]
C21_InstalledPathTranslated ==
  (msg.type = "create-puzzle" /\ pc \in {"paths", "finish", "closed"}) =>
    \A cell \in Cells :
      nodes[cell].vectorPaths # <<>> =>
        LET n == neighborShape(neighborsData[cell])
            b == expectedBounds(n, pieceWidth, pieceHeight, STUD_CFG)
            contour == buildPiecePath(pieceWidth, pieceHeight, n, STUD_CFG)
            d == nodes[cell].vectorPaths[1].data
        IN  /\ d = translated(contour, 0 - b.minX, 0 - b.minY)
            /\ \A p \in contourPoints(d) : p[1] >= 0 /\ p[2] >= 0
            /\ endPoint(d[Len(d) - 1]) = endPoint(d[1])

\* C22: during the row-major sweep, when cell (r,c) reads the right
\* descriptor of (r,c-1) or the bottom descriptor of (r-1,c), that cell has
\* already been processed and the descriptor is defined: the non-null
\* assertions never meet an undefined value and the sweep never fails
C22_ReadsAreDefined ==
  /\ (msg.type = "create-puzzle" /\ pc = "neighbors") =>
       /\ col > 0 => /\ <<row, col - 1>> \in assigned
                     /\ neighborsData[<<row, col - 1>>].right # undefined
       /\ row > 0 => /\ <<row - 1, col>> \in assigned
                     /\ neighborsData[<<row - 1, col>>].bottom # undefined
       /\ ~readsUndefined(nodes, neighborsData, row, col)
  /\ pc = "rejected" => imageError
C22_Witness ==
  /\ msg.type = "create-puzzle"
  /\ pc = "neighbors"
  /\ rows = 2 /\ columns = 2
  /\ row = 1 /\ col = 1
  /\ neighborsData[<<1, 0>>].right # undefined
  /\ neighborsData[<<0, 1>>].bottom # undefined

\* C23: the neighborId of every descriptor is the identity of the cell
\* adjacent on that side (left (r,c-1), right (r,c+1), top (r-1,c), bottom
\* (r+1,c)); references are mutual, and no descriptor names the piece itself
\* or something that is not a piece of the grid
adjacent(cell, side) ==
  CASE side = "left" -> <<cell[1], cell[2] - 1>>
    [] side = "right" -> <<cell[1], cell[2] + 1>>
    [] side = "top" -> <<cell[1] - 1, cell[2]>>
    [] side = "bottom" -> <<cell[1] + 1, cell[2]>>
opposite(side) ==
  CASE side = "left" -> "right"
    [] side = "right" -> "left"
    [] side = "top" -> "bottom"
    [] side = "bottom" -> "top"
C23_NeighborIdsMutual ==
  msg.type = "create-puzzle" =>
    \A cell \in assigned : \A side \in Sides :
      neighborsData[cell][side] # undefined =>
        LET id == neighborsData[cell][side][1].neighborId
            other == adjacent(cell, side)
        IN  /\ other \in Cells
            /\ id = nodes[other].id
            /\ id # nodes[cell].id
            /\ \A k \in Cells : nodes[k].id = id => k = other
            /\ other \in assigned =>
                 /\ neighborsData[other][opposite(side)] # undefined
                 /\ neighborsData[other][opposite(side)][1].neighborId = nodes[cell].id
C23_Witness ==
  /\ assignmentFinished
  /\ rows = 2 /\ columns = 3
  /\ neighborsData[<<1, 1>>].top[1].neighborId = nodes[<<0, 1>>].id
  /\ neighborsData[<<0, 1>>].bottom[1].neighborId = nodes[<<1, 1>>].id
  /\ neighborsData[<<1, 1>>].left[1].neighborId = nodes[<<1, 0>>].id

\* C24: for every piece the position-based rectangle of the first image
\* transform (the nominal rectangle extended by maxDepth on every side that
\* is not on the border of the grid) contains the rectangle calculatePieceBounds
\* returns for the piece later, and the two are equal exactly when every
\* internal side of the piece is a tab
positionRect(cell) ==
  LET t == nodes[cell].imageTransform
      minX == t[1][3][1] - cell[2] * pieceWidth
      minY == t[2][3][1] - cell[1] * pieceHeight
  IN  [minX |-> minX, maxX |-> minX + t[1][1][1],
       minY |-> minY, maxY |-> minY + t[2][2][1]]
computedRect(cell) ==
  calculatePieceBounds(neighborShape(neighborsData[cell]), pieceWidth, pieceHeight,
                       STUD_CFG)
allInternalSidesTabs(cell) ==
  \A side \in Sides :
    adjacent(cell, side) \in Cells => isTabSide(neighborsData[cell][side])
C24_PositionRectContains ==
  assignmentFinished =>
    \A cell \in Cells :
      nodes[cell].size # undefined =>
        LET p == positionRect(cell)
            b == computedRect(cell)
        IN  /\ p.minX <= b.minX /\ b.maxX <= p.maxX
            /\ p.minY <= b.minY /\ b.maxY <= p.maxY
            /\ (p = b) = allInternalSidesTabs(cell)

\* C25: for every piece size with w, h > 0 and the default configuration
\* (widthFactor 1/3) the stud lies strictly inside its side, on all four
\* sides: 0 < mid - half and mid + half < across, both straight runs have
\* positive length, and along the segment the positions of the end points
\* along the side never decrease
C25_StudInsideSide ==
  (outIs("edgeWithStud") /\ call.cfg = STUD_CFG
     /\ call.neighbors[out[1].side] # undefined) =>
    LET side == out[1].side
        seg == out[1].value
        across == acrossOf(side, call.w, call.h)
        x(k) == toCanonical(side, call.w, call.h, endPoint(seg[k]))[1]
    IN  /\ call.w > 0 /\ call.h > 0
        /\ Len(seg) = 8
        /\ x(2) = 0
        /\ 0 < x(3)
        /\ x(7) < across
        /\ x(8) = across
        /\ x(3) + x(7) = across
        /\ \A k \in 1 .. 7 : x(k) <= x(k + 1)
C25_Witness ==
  /\ outIs("edgeWithStud")
  /\ call.cfg = STUD_CFG
  /\ out[1].side = "top"
  /\ call.neighbors.top # undefined
  /\ call.w < call.h
  /\ toCanonical("top", call.w, call.h, endPoint(out[1].value[3]))[1] * 3 = call.w

\* C26: the handling of a create-puzzle message with positive rows and
\* columns ends with figma.closePlugin called exactly once, after all paths
\* have been set; the handling of a debug message returns with no node
\* created and the plugin not closed
handlingEnded == pc \in {"closed", "returned", "rejected"}
C26_ClosesExactlyOnce ==
  /\ closed <= 1
  /\ (msg.type = "create-puzzle" /\ rows > 0 /\ columns > 0) =>
       /\ handlingEnded => closed = 1
       /\ closed = 1 => /\ DOMAIN nodes = Cells
                        /\ \A cell \in Cells : nodes[cell].vectorPaths # <<>>
  /\ msg.type = "debug" =>
       /\ pc = "returned"
       /\ nodes = <<>>
       /\ closed = 0
====
